---- MODULE Spec2Model ----
(***************************************************************************)
(* StudyHub backend (src/server.js): the Subject and Resource collections, *)
(* the REST handlers that read and write them, and the stats and listing   *)
(* computations.  A handler is a sequence of store operations separated by *)
(* awaits; each store operation (create, findById, findByIdAndUpdate,      *)
(* findByIdAndDelete, findOneAndUpdate, save, countDocuments, aggregate)   *)
(* is one atomic step, and steps of different requests may interleave.     *)
(***************************************************************************)
EXTENDS Integers, Sequences, FiniteSets, TLC

\* ------------------------------------------------------------- bounds
MaxSubjects == 2
MaxResources == 2
NumSlots == 2
MaxRequests == 4
MaxRaceRequests == 3
MaxTotal == 25
MaxPage == 3
MaxLimit == 11

\* ------------------------------------------------------------- inputs
Names == {"Math", "Bio"}
SubjIds == 1..MaxSubjects
ResIds == 1..MaxResources
Slots == 1..NumSlots

\* A route parameter :id that is no ObjectId (mongoose cannot cast it).
Malformed == 0

SubjIdParams == SubjIds \cup {Malformed}
ResIdParams == ResIds \cup {Malformed}

\* Request bodies: "fields" are the keys the JSON body carries.
SubjectCreateBodies ==
    {[fields |-> {"name"}, name |-> n, resourceCount |-> 0] : n \in Names}
    \cup {[fields |-> {"name", "resourceCount"}, name |-> "Math", resourceCount |-> -1]}

SubjectUpdateBodies ==
    {[fields |-> {"name"}, name |-> "Bio", resourceCount |-> 0],
     [fields |-> {"resourceCount"}, name |-> "", resourceCount |-> -1]}

ResourceCreateBodies ==
    {[fields |-> {"subject"}, subject |-> n, downloads |-> 0, views |-> 0] : n \in Names}
    \cup {[fields |-> {"subject", "downloads"}, subject |-> "Math", downloads |-> -1, views |-> 0]}

ResourceUpdateBodies ==
    {[fields |-> {"subject"}, subject |-> "Bio", downloads |-> 0, views |-> 0],
     [fields |-> {"views"}, subject |-> "", downloads |-> 0, views |-> -1]}

VARIABLES
    subjects,     \* the Subject collection: _id -> [name, resourceCount]
    resources,    \* the Resource collection: _id -> [subject, downloads, views]
    nextSid,      \* the next Subject _id the store assigns
    nextRid,      \* the next Resource _id the store assigns
    pc,           \* per request slot: where its handler is
    loc,          \* per request slot: the document its handler holds
    acc,          \* per request slot: the stats handler's results so far
    resp,         \* the last response sent
    budget,       \* requests the run may still receive
    plain,        \* history: only creates without counter fields and deletes so far
    expViews,     \* history: a Resource's views at creation plus its successful fetches
    viewsWritten, \* history: Resources whose views an update has written
    delWon,       \* history: findByIdAndDelete calls that returned the document, per _id
    decs,         \* history: $inc -1 operations issued, per Resource _id
    listIn,       \* the listing request: matching documents, page, limit
    listOut       \* the listing response

storeVars == <<subjects, resources, nextSid, nextRid>>
slotVars == <<pc, loc, acc, resp, budget>>
histVars == <<plain, expViews, viewsWritten, delWon, decs>>
listVars == <<listIn, listOut>>
vars == <<subjects, resources, nextSid, nextRid, pc, loc, acc, resp, budget,
          plain, expViews, viewsWritten, delWon, decs, listIn, listOut>>

NoDoc == [id |-> Malformed, subject |-> "", downloads |-> 0, views |-> 0]
NoResp == [op |-> "none", id |-> Malformed, status |-> 0, val |-> <<>>]
NoList == [total |-> 0, page |-> <<>>, limit |-> <<>>]
NoListOut == [status |-> 0, count |-> 0, total |-> 0, page |-> 0, pages |-> 0]

\* ------------------------------------------------------------- schemas
\* subjectSchema: resourceCount is taken from the body when it carries one,
\* else the schema default.
SubjectDefaultCount == 0
NewSubject(body) ==
    [name |-> body.name,
     resourceCount |-> IF "resourceCount" \in body.fields
                       THEN body.resourceCount ELSE SubjectDefaultCount]

\* resourceSchema: downloads and views likewise.
ResourceDefaultCounter == 0
NewResource(body) ==
    [subject |-> body.subject,
     downloads |-> IF "downloads" \in body.fields
                   THEN body.downloads ELSE ResourceDefaultCounter,
     views |-> IF "views" \in body.fields
               THEN body.views ELSE ResourceDefaultCounter]

\* findByIdAndUpdate(id, body): the keys of the body overwrite, the rest stay.
MergeSubject(doc, body) ==
    [name |-> IF "name" \in body.fields THEN body.name ELSE doc.name,
     resourceCount |-> IF "resourceCount" \in body.fields
                       THEN body.resourceCount ELSE doc.resourceCount]

MergeResource(doc, body) ==
    [subject |-> IF "subject" \in body.fields THEN body.subject ELSE doc.subject,
     downloads |-> IF "downloads" \in body.fields THEN body.downloads ELSE doc.downloads,
     views |-> IF "views" \in body.fields THEN body.views ELSE doc.views]

\* ------------------------------------------------------------- store
\* The collection with one more document.
Insert(coll, id, doc) ==
    [i \in DOMAIN coll \cup {id} |-> IF i = id THEN doc ELSE coll[i]]

\* A findById in place of findByIdAndDelete: the document stays.
RemoveNothing(coll, id) == coll

\* The collection without document id (findByIdAndDelete's write).
Remove(coll, id) ==
    [i \in DOMAIN coll \ {id} |-> coll[i]]

\* The Subjects a filter {name: n} matches.
MatchingSubjects(n) ==
    {s \in DOMAIN subjects : subjects[s].name = n}

\* Subject.findOneAndUpdate({name: n}, {$inc: {resourceCount: delta}}) on
\* the one document s the store picked.
IncResourceCount(s, delta) ==
    [subjects EXCEPT ![s].resourceCount = @ + delta]

\* The status of a lookup by :id, before any write: a malformed id makes
\* mongoose throw (the handler's catch answers 500), a missing one gives null.
LookupStatus(coll, id) ==
    IF id = Malformed THEN 500
    ELSE IF id \notin DOMAIN coll THEN 404
    ELSE 200

\* ------------------------------------------------------------- requests
Free(p) == pc[p] = "idle"

\* A request arrives and is handled in slot p, the first free one (the slots
\* are interchangeable).
Arrive(p) ==
    /\ Free(p)
    /\ \A q \in Slots : q < p => ~Free(q)
    /\ budget > 0
    /\ budget' = budget - 1

\* res.status(status).json(...): the handler of slot p is finished.
Respond(p, op, id, status, val) ==
    /\ pc' = [pc EXCEPT ![p] = "idle"]
    /\ loc' = [loc EXCEPT ![p] = NoDoc]
    /\ acc' = [acc EXCEPT ![p] = <<>>]
    /\ resp' = [op |-> op, id |-> id, status |-> status, val |-> val]

\* The handler of slot p goes on to step label holding document doc.
Goto(p, label, doc) ==
    /\ pc' = [pc EXCEPT ![p] = label]
    /\ loc' = [loc EXCEPT ![p] = doc]
    /\ UNCHANGED <<acc, resp>>

\* ------------------------------------------------------------- subjects
\* POST /api/subjects
CreateSubject(p, body) ==
    /\ Arrive(p)
    /\ nextSid <= MaxSubjects
    /\ subjects' = Insert(subjects, nextSid, NewSubject(body))
    /\ nextSid' = nextSid + 1
    /\ Respond(p, "createSubject", nextSid, 201, <<NewSubject(body).resourceCount>>)
    /\ plain' = (plain /\ "resourceCount" \notin body.fields)
    /\ UNCHANGED <<resources, nextRid, expViews, viewsWritten, delWon, decs, listVars>>

\* PUT /api/subjects/:id
UpdateSubject(p, id, body) ==
    /\ Arrive(p)
    /\ subjects' = IF LookupStatus(subjects, id) = 200
                   THEN [subjects EXCEPT ![id] = MergeSubject(@, body)]
                   ELSE subjects
    /\ Respond(p, "updateSubject", id, LookupStatus(subjects, id), <<>>)
    /\ plain' = FALSE
    /\ UNCHANGED <<resources, nextSid, nextRid, expViews, viewsWritten, delWon, decs, listVars>>

\* DELETE /api/subjects/:id
DeleteSubject(p, id) ==
    /\ Arrive(p)
    /\ subjects' = IF LookupStatus(subjects, id) = 200
                   THEN Remove(subjects, id) ELSE subjects
    /\ Respond(p, "deleteSubject", id, LookupStatus(subjects, id), <<>>)
    /\ plain' = (plain /\ LookupStatus(subjects, id) = 200)
    /\ UNCHANGED <<resources, nextSid, nextRid, expViews, viewsWritten, delWon, decs, listVars>>

\* ------------------------------------------------------------- resources
\* POST /api/resources, Resource.create(req.body)
CreateResource(p, body) ==
    /\ Arrive(p)
    /\ nextRid <= MaxResources
    /\ resources' = Insert(resources, nextRid, NewResource(body))
    /\ nextRid' = nextRid + 1
    /\ Goto(p, "createInc", [id |-> nextRid, subject |-> NewResource(body).subject,
                             downloads |-> NewResource(body).downloads,
                             views |-> NewResource(body).views])
    /\ expViews' = [expViews EXCEPT ![nextRid] = NewResource(body).views]
    /\ plain' = (plain /\ body.fields = {"subject"})
    /\ UNCHANGED <<subjects, nextSid, viewsWritten, delWon, decs, listVars>>

\* POST /api/resources, Subject.findOneAndUpdate({name}, {$inc: {resourceCount: 1}})
CreateResourceInc(p) ==
    /\ pc[p] = "createInc"
    /\ IF MatchingSubjects(loc[p].subject) = {}
       THEN subjects' = subjects
       ELSE \E s \in MatchingSubjects(loc[p].subject) :
                subjects' = IncResourceCount(s, 1)
    /\ Respond(p, "createResource", loc[p].id, 201, <<>>)
    /\ UNCHANGED <<resources, nextSid, nextRid, budget, histVars, listVars>>

\* PUT /api/resources/:id
UpdateResource(p, id, body) ==
    /\ Arrive(p)
    /\ resources' = IF LookupStatus(resources, id) = 200
                    THEN [resources EXCEPT ![id] = MergeResource(@, body)]
                    ELSE resources
    /\ Respond(p, "updateResource", id, LookupStatus(resources, id), <<>>)
    /\ plain' = FALSE
    /\ viewsWritten' = IF LookupStatus(resources, id) = 200 /\ "views" \in body.fields
                       THEN viewsWritten \cup {id} ELSE viewsWritten
    /\ UNCHANGED <<subjects, nextSid, nextRid, expViews, delWon, decs, listVars>>

\* DELETE /api/resources/:id, Resource.findByIdAndDelete(id)
DeleteResource(p, id) ==
    /\ Arrive(p)
    /\ resources' = IF LookupStatus(resources, id) = 200
                    THEN Remove(resources, id) ELSE resources
    /\ IF LookupStatus(resources, id) = 200
       THEN Goto(p, "deleteDec", [id |-> id, subject |-> resources[id].subject,
                                  downloads |-> resources[id].downloads,
                                  views |-> resources[id].views])
       ELSE Respond(p, "deleteResource", id, LookupStatus(resources, id), <<>>)
    /\ plain' = (plain /\ LookupStatus(resources, id) = 200)
    /\ delWon' = IF LookupStatus(resources, id) = 200
                 THEN [delWon EXCEPT ![id] = @ + 1] ELSE delWon
    /\ UNCHANGED <<subjects, nextSid, nextRid, expViews, viewsWritten, decs, listVars>>

\* DELETE /api/resources/:id, Subject.findOneAndUpdate({name}, {$inc: {resourceCount: -1}})
DeleteResourceDec(p) ==
    /\ pc[p] = "deleteDec"
    /\ IF MatchingSubjects(loc[p].subject) = {}
       THEN subjects' = subjects
       ELSE \E s \in MatchingSubjects(loc[p].subject) :
                subjects' = IncResourceCount(s, -1)
    /\ Respond(p, "deleteResource", loc[p].id, 200, <<>>)
    /\ decs' = [decs EXCEPT ![loc[p].id] = @ + 1]
    /\ UNCHANGED <<resources, nextSid, nextRid, budget, plain, expViews, viewsWritten, delWon, listVars>>

\* resource.views += 1 on the loaded document.
BumpedViews(doc) == doc.views + 1

\* The increment left out: the loaded value is saved back.
BumpedDownloadsLost(doc) == doc.downloads

\* resource.downloads += 1 on the loaded document.
BumpedDownloads(doc) == doc.downloads + 1

\* What save() answers when the document it updates is gone from the store:
\* mongoose throws DocumentNotFoundError (500) or, in older releases, resolves.
SaveMissingStatuses == {200, 500}

\* The first step of GET /api/resources/:id and of POST .../download:
\* Resource.findById(id), then 404 for null.
FindById(p, id, op, label) ==
    /\ Arrive(p)
    /\ IF LookupStatus(resources, id) = 200
       THEN Goto(p, label, [id |-> id, subject |-> resources[id].subject,
                            downloads |-> resources[id].downloads,
                            views |-> resources[id].views])
       ELSE Respond(p, op, id, LookupStatus(resources, id), <<>>)
    /\ plain' = FALSE
    /\ UNCHANGED <<storeVars, expViews, viewsWritten, delWon, decs, listVars>>

\* GET /api/resources/:id, findById
GetResource(p, id) == FindById(p, id, "getResource", "getSave")

\* GET /api/resources/:id: resource.views += 1; await resource.save().
\* save() writes the modified path only: $set {views} on the document's _id.
GetResourceSave(p) ==
    /\ pc[p] = "getSave"
    /\ IF loc[p].id \in DOMAIN resources
       THEN /\ resources' = [resources EXCEPT ![loc[p].id].views = BumpedViews(loc[p])]
            /\ Respond(p, "getResource", loc[p].id, 200, <<BumpedViews(loc[p])>>)
            /\ expViews' = [expViews EXCEPT ![loc[p].id] = @ + 1]
       ELSE /\ resources' = resources
            /\ \E st \in SaveMissingStatuses :
                   Respond(p, "getResource", loc[p].id, st, <<>>)
            /\ expViews' = expViews
    /\ UNCHANGED <<subjects, nextSid, nextRid, budget, plain, viewsWritten, delWon, decs, listVars>>

\* POST /api/resources/:id/download, findById
Download(p, id) == FindById(p, id, "download", "downloadSave")

\* POST /api/resources/:id/download: resource.downloads += 1; await resource.save();
\* the response carries resource.downloads.
DownloadSave(p) ==
    /\ pc[p] = "downloadSave"
    /\ IF loc[p].id \in DOMAIN resources
       THEN /\ resources' = [resources EXCEPT ![loc[p].id].downloads = BumpedDownloads(loc[p])]
            /\ Respond(p, "download", loc[p].id, 200, <<BumpedDownloads(loc[p])>>)
       ELSE /\ resources' = resources
            /\ \E st \in SaveMissingStatuses :
                   Respond(p, "download", loc[p].id, st, <<>>)
    /\ UNCHANGED <<subjects, nextSid, nextRid, budget, histVars, listVars>>

\* ------------------------------------------------------------- stats
RECURSIVE SumField(_, _, _)
\* The sum of downloads (field = "downloads") or views over documents ids of coll.
SumField(coll, ids, field) ==
    IF ids = {} THEN 0
    ELSE LET i == CHOOSE x \in ids : TRUE
         IN (IF field = "downloads" THEN coll[i].downloads ELSE coll[i].views)
            + SumField(coll, ids \ {i}, field)

\* The downloads aggregate copied for views with its $sum left at '$downloads'.
AggregateDownloadsOnly(coll, field) ==
    IF DOMAIN coll = {} THEN <<>>
    ELSE <<[total |-> SumField(coll, DOMAIN coll, "downloads")]>>

\* Resource.aggregate([{$group: {_id: null, total: {$sum: '$<field>'}}}]):
\* one group when the collection has documents, none when it is empty.
Aggregate(coll, field) ==
    IF DOMAIN coll = {} THEN <<>>
    ELSE <<[total |-> SumField(coll, DOMAIN coll, field)]>>

\* agg[0]?.total || 0
TotalOrZero(agg) ==
    IF Len(agg) = 0 THEN 0
    ELSE IF agg[1].total = 0 THEN 0 ELSE agg[1].total

\* The stats handler of slot p has one more result.
StatsStep(p, label, value) ==
    /\ pc' = [pc EXCEPT ![p] = label]
    /\ acc' = [acc EXCEPT ![p] = Append(@, value)]
    /\ UNCHANGED <<loc, resp>>

\* GET /api/stats, Subject.countDocuments()
Stats(p) ==
    /\ Arrive(p)
    /\ StatsStep(p, "statsResources", Cardinality(DOMAIN subjects))
    /\ plain' = FALSE
    /\ UNCHANGED <<storeVars, expViews, viewsWritten, delWon, decs, listVars>>

\* GET /api/stats, Resource.countDocuments()
StatsResources(p) ==
    /\ pc[p] = "statsResources"
    /\ StatsStep(p, "statsDownloads", Cardinality(DOMAIN resources))
    /\ UNCHANGED <<storeVars, budget, histVars, listVars>>

\* GET /api/stats, the downloads aggregate
StatsDownloads(p) ==
    /\ pc[p] = "statsDownloads"
    /\ StatsStep(p, "statsViews", TotalOrZero(Aggregate(resources, "downloads")))
    /\ UNCHANGED <<storeVars, budget, histVars, listVars>>

\* GET /api/stats, the views aggregate and the response
StatsViews(p) ==
    /\ pc[p] = "statsViews"
    /\ Respond(p, "stats", Malformed, 200,
               Append(acc[p], TotalOrZero(Aggregate(resources, "views"))))
    /\ UNCHANGED <<storeVars, budget, histVars, listVars>>

\* ------------------------------------------------------------- listing
\* A query-string value is a string of decimal digits; <<>> is an absent one.
RECURSIVE DigitsValue(_)
\* parseInt / numeric coercion of a digit string (most significant first).
DigitsValue(d) ==
    IF Len(d) = 0 THEN 0
    ELSE 10 * DigitsValue(SubSeq(d, 1, Len(d) - 1)) + d[Len(d)]

\* The decimal digits a client sends for n >= 1.
RECURSIVE Digits(_)
Digits(n) ==
    IF n < 10 THEN <<n>> ELSE Append(Digits(n \div 10), n % 10)

DefaultPage == 1
DefaultLimit == 20

\* const { page = 1, limit = 20 } = req.query
PageOf(q) == IF q.page = <<>> THEN DefaultPage ELSE DigitsValue(q.page)
LimitOf(q) == IF q.limit = <<>> THEN DefaultLimit ELSE DigitsValue(q.limit)

\* The page taken as zero-based: skip = page * limit.
SkipZeroBased(q) == PageOf(q) * LimitOf(q)

\* const skip = (page - 1) * limit
SkipOf(q) == (PageOf(q) - 1) * LimitOf(q)

\* Math.ceil(total / limit), for limit >= 1
CeilDiv(a, b) == (a + b - 1) \div b

\* find(query).sort(...).limit(limit).skip(skip) over the matching documents
\* docs, in their sort order: the documents after the first skip, at most limit.
PageDocs(docs, skip, limit) ==
    SubSeq(docs, skip + 1, IF skip + limit < Len(docs) THEN skip + limit ELSE Len(docs))

\* GET /api/resources over q.total matching documents
ListResources ==
    /\ listOut = NoListOut
    /\ LET docs == [i \in 1..listIn.total |-> i]
       IN listOut' = [status |-> 200,
                      count |-> Len(PageDocs(docs, SkipOf(listIn), LimitOf(listIn))),
                      total |-> Len(docs),
                      page |-> PageOf(listIn),
                      pages |-> CeilDiv(Len(docs), LimitOf(listIn))]
    /\ UNCHANGED <<storeVars, slotVars, histVars, listIn>>

ListInputs ==
    [total : 0..MaxTotal,
     page : {<<>>} \cup {Digits(n) : n \in 1..MaxPage},
     limit : {<<>>} \cup {Digits(n) : n \in 1..MaxLimit}]

\* ------------------------------------------------------------- specifications
InitStore ==
    /\ subjects = <<>>
    /\ resources = <<>>
    /\ nextSid = 1
    /\ nextRid = 1
    /\ pc = [p \in Slots |-> "idle"]
    /\ loc = [p \in Slots |-> NoDoc]
    /\ acc = [p \in Slots |-> <<>>]
    /\ resp = NoResp
    /\ plain = TRUE
    /\ expViews = [r \in ResIds |-> 0]
    /\ viewsWritten = {}
    /\ delWon = [r \in ResIds |-> 0]
    /\ decs = [r \in ResIds |-> 0]

Init ==
    /\ InitStore
    /\ budget = MaxRequests
    /\ listIn = NoList
    /\ listOut = NoListOut

\* One step of the handler of slot p.
Step(p) ==
    \/ \E body \in SubjectCreateBodies : CreateSubject(p, body)
    \/ \E id \in SubjIdParams, body \in SubjectUpdateBodies : UpdateSubject(p, id, body)
    \/ \E id \in SubjIdParams : DeleteSubject(p, id)
    \/ \E body \in ResourceCreateBodies : CreateResource(p, body)
    \/ CreateResourceInc(p)
    \/ \E id \in ResIdParams, body \in ResourceUpdateBodies : UpdateResource(p, id, body)
    \/ \E id \in ResIdParams : DeleteResource(p, id)
    \/ DeleteResourceDec(p)
    \/ \E id \in ResIdParams : GetResource(p, id)
    \/ GetResourceSave(p)
    \/ \E id \in ResIdParams : Download(p, id)
    \/ DownloadSave(p)
    \/ Stats(p)
    \/ StatsResources(p)
    \/ StatsDownloads(p)
    \/ StatsViews(p)

\* Requests handled concurrently: the steps of the slots interleave.
Next == \E p \in Slots : Step(p)
Spec == Init /\ [][Next]_vars

\* Concurrent requests on a store that already holds Subject 1, "Math", and
\* Resource 1 of subject "Math": the store after POST /api/subjects {name: "Math"}
\* and POST /api/resources {subject: "Math"}.
RaceInit ==
    /\ subjects = (1 :> [name |-> "Math", resourceCount |-> 1])
    /\ resources = (1 :> [subject |-> "Math", downloads |-> 0, views |-> 0])
    /\ nextSid = 2
    /\ nextRid = 2
    /\ pc = [p \in Slots |-> "idle"]
    /\ loc = [p \in Slots |-> NoDoc]
    /\ acc = [p \in Slots |-> <<>>]
    /\ resp = [op |-> "createResource", id |-> 1, status |-> 201, val |-> <<>>]
    /\ budget = MaxRaceRequests
    /\ plain = TRUE
    /\ expViews = [r \in ResIds |-> 0]
    /\ viewsWritten = {}
    /\ delWon = [r \in ResIds |-> 0]
    /\ decs = [r \in ResIds |-> 0]
    /\ listIn = NoList
    /\ listOut = NoListOut
RaceSpec == RaceInit /\ [][Next]_vars

\* Requests handled one after the other: a single slot.
SeqNext == Step(1)
SeqSpec == Init /\ [][SeqNext]_vars

\* The listing computation over every bounded query.
ListInit ==
    /\ InitStore
    /\ budget = 0
    /\ listIn \in ListInputs
    /\ listOut = NoListOut
ListNext == ListResources
ListSpec == ListInit /\ [][ListNext]_vars

\* ------------------------------------------------------------- properties
\* No handler is between two of its store operations.
Quiet == \A p \in Slots : pc[p] = "idle"

\* The live Resources whose subject field is name n.
ResourcesNaming(n) == {r \in DOMAIN resources : resources[r].subject = n}

\* C1: in every reachable state every Subject's resourceCount and every
\* Resource's downloads and views are >= 0.
C1_CountersNonNegative ==
    /\ \A s \in DOMAIN subjects : subjects[s].resourceCount >= 0
    /\ \A r \in DOMAIN resources : resources[r].downloads >= 0 /\ resources[r].views >= 0

\* C2: after any sequence of whole, successful Subject and Resource creations
\* and deletions (no update at all, no counter field in a body), each Subject's
\* resourceCount is the number of live Resources naming it.
C2_CountMatchesLive ==
    (plain /\ Quiet) =>
        \A s \in DOMAIN subjects :
            subjects[s].resourceCount = Cardinality(ResourcesNaming(subjects[s].name))

\* C3: the counter step of creating a Resource adds exactly 1 to the
\* resourceCount of every existing Subject S whose name is the Resource's
\* subject, and leaves every other Subject's resourceCount as it was.
C3_CreateIncrementsNamedSubject ==
    [][\A p \in Slots :
          CreateResourceInc(p) =>
              \A s \in DOMAIN subjects :
                  subjects'[s].resourceCount =
                      subjects[s].resourceCount
                      + (IF subjects[s].name = loc[p].subject THEN 1 ELSE 0)]_vars

\* C4: a live Resource whose views no update has written, and which no fetch
\* holds between its find and its save, has views = its views at creation plus
\* the number of its successful fetches, however the fetches interleaved.
C4_ViewsCountFetches ==
    \A r \in DOMAIN resources :
        (r \notin viewsWritten /\ \A p \in Slots : ~(pc[p] = "getSave" /\ loc[p].id = r))
            => resources[r].views = expViews[r]

\* C5: a download of an existing Resource, requests handled one after the
\* other, adds exactly 1 to its downloads, answers the stored new value,
\* leaves its views alone, and answers more than the download of the same
\* Resource answered just before it.
C5_DownloadIncrements ==
    [][\A p \in Slots :
          (DownloadSave(p) /\ loc[p].id \in DOMAIN resources) =>
              /\ resp'.status = 200
              /\ resources'[loc[p].id].downloads = resources[loc[p].id].downloads + 1
              /\ resp'.val = <<resources'[loc[p].id].downloads>>
              /\ resources'[loc[p].id].views = resources[loc[p].id].views
              /\ (resp.op = "download" /\ resp.id = loc[p].id /\ resp.status = 200)
                     => resp'.val[1] > resp.val[1]]_vars

\* C5 happens: the second of two downloads in a row, the only requests since
\* the Resource was created, answers 2.
C5_Witness ==
    /\ resp = [op |-> "download", id |-> 1, status |-> 200, val |-> <<2>>]
    /\ budget = MaxRequests - 3
    /\ 1 \in DOMAIN resources
    /\ resources[1].downloads = 2

\* The answer to a request is NotFound and neither collection changed.
NotFoundUntouched == resp'.status = 404 /\ UNCHANGED <<subjects, resources>>

\* C6: every operation addressed to an :id that is not in the store answers
\* 404 and leaves every Subject and Resource unchanged.
C6_MissingIdIsNotFound ==
    [][\A p \in Slots :
          /\ \A id \in ResIdParams \ DOMAIN resources :
                 (\/ GetResource(p, id)
                  \/ Download(p, id)
                  \/ DeleteResource(p, id)
                  \/ \E body \in ResourceUpdateBodies : UpdateResource(p, id, body))
                     => NotFoundUntouched
          /\ \A id \in SubjIdParams \ DOMAIN subjects :
                 (\/ DeleteSubject(p, id)
                  \/ \E body \in SubjectUpdateBodies : UpdateSubject(p, id, body))
                     => NotFoundUntouched]_vars

\* The part of C6 that a well-formed :id bears out: an ObjectId that no
\* document has is answered 404 and nothing is written.
WellFormedMissingIdIsNotFound ==
    [][\A p \in Slots :
          /\ \A id \in ResIds \ DOMAIN resources :
                 (\/ GetResource(p, id)
                  \/ Download(p, id)
                  \/ DeleteResource(p, id)
                  \/ \E body \in ResourceUpdateBodies : UpdateResource(p, id, body))
                     => NotFoundUntouched
          /\ \A id \in SubjIds \ DOMAIN subjects :
                 (\/ DeleteSubject(p, id)
                  \/ \E body \in SubjectUpdateBodies : UpdateSubject(p, id, body))
                     => NotFoundUntouched]_vars

\* C7: the Subject a successful POST /api/subjects answers has resourceCount 0,
\* whatever the body.
C7_CreatedSubjectStartsAtZero ==
    (resp.op = "createSubject" /\ resp.status = 201) => resp.val = <<0>>

\* C8: with requests handled one after the other, the stats answer is 200 with
\* the number of live Subjects, the number of live Resources, and the sums of
\* downloads and of views over the live Resources (0 when there are none).
C8_StatsAreTotals ==
    (Quiet /\ resp.op = "stats") =>
        /\ resp.status = 200
        /\ resp.val = <<Cardinality(DOMAIN subjects),
                        Cardinality(DOMAIN resources),
                        SumField(resources, DOMAIN resources, "downloads"),
                        SumField(resources, DOMAIN resources, "views")>>
        /\ (DOMAIN resources = {} => resp.val[3] = 0 /\ resp.val[4] = 0)
        /\ (DOMAIN resources = {} /\ DOMAIN subjects = {} => resp.val = <<0, 0, 0, 0>>)

\* C8 happens: stats answered on a store whose Resources have downloads and
\* views that differ.
C8_Witness ==
    /\ Quiet
    /\ resp.op = "stats"
    /\ resp.val[2] > 0
    /\ resp.val[3] > 0
    /\ resp.val[3] # resp.val[4]

\* The number a digit string stands for, <<>> standing for the default.
ParamValue(d, default) ==
    IF d = <<>> THEN default
    ELSE CHOOSE n \in 1..(MaxPage + MaxLimit) : Digits(n) = d

\* ceil(a / b) for b >= 1: the least k with k * b >= a.
Ceiling(a, b) == CHOOSE k \in 0..a : k * b >= a /\ \A j \in 0..a : j * b >= a => k <= j

Min(a, b) == IF a < b THEN a ELSE b
Max(a, b) == IF a > b THEN a ELSE b

\* C9: listing page p >= 1 with page size s >= 1 (1 and 20 when absent) over T
\* matching Resources answers total = T, pages = ceil(T / s) and
\* count = min(s, max(0, T - (p - 1) * s)); p = 2, s = 10, T = 25 gives
\* count 10, total 25, pages 3.
C9_ListPage ==
    listOut.status = 200 =>
        LET T == listIn.total
            pg == ParamValue(listIn.page, 1)
            s == ParamValue(listIn.limit, 20)
        IN /\ listOut.total = T
           /\ listOut.pages = Ceiling(T, s)
           /\ listOut.count = Min(s, Max(0, T - (pg - 1) * s))
           /\ listOut.page = pg
           /\ (pg = 2 /\ s = 10 /\ T = 25) =>
                  (listOut.count = 10 /\ listOut.total = 25 /\ listOut.pages = 3)

\* C9 happens: page 2 of size 10 over 25 Resources has been listed.
C9_Witness ==
    /\ listIn = [total |-> 25, page |-> <<2>>, limit |-> <<1, 0>>]
    /\ listOut = [status |-> 200, count |-> 10, total |-> 25, page |-> 2, pages |-> 3]

\* The DELETE handlers that removed Resource r and have not yet decremented.
Decrementing(r) == {p \in Slots : pc[p] = "deleteDec" /\ loc[p].id = r}

\* C10: of the DELETE requests for one Resource, however they interleave, one
\* at most finds and removes it (exactly one once it is gone), that one alone
\* issues the resourceCount decrement, once, and every answer to such a request
\* is 200 (the one that removed it) or 404.
C10_DeleteOnce ==
    \A r \in ResIds :
        /\ delWon[r] <= 1
        /\ (delWon[r] = 1) <=> (r < nextRid /\ r \notin DOMAIN resources)
        /\ decs[r] + Cardinality(Decrementing(r)) = delWon[r]
        /\ (resp.op = "deleteResource" /\ resp.id = r) =>
               /\ resp.status \in {200, 404}
               /\ resp.status = 200 => decs[r] = 1

\* C10 happens: a second DELETE of Resource 1 was answered 404 while the first,
\* which removed it, has yet to decrement the count of its Subject.
C10_Witness ==
    /\ Decrementing(1) # {}
    /\ resp = [op |-> "deleteResource", id |-> 1, status |-> 404, val |-> <<>>]
    /\ \E s \in DOMAIN subjects :
           subjects[s].name = "Math" /\ subjects[s].resourceCount = 1

====
